---- MODULE Spec2Model ----
(***************************************************************************)
(* warikan-calculator: the zustand store (members, expenses and the two    *)
(* input fields) and the useResultLogic hook that turns the store's        *)
(* members and expenses into a list of settling transactions.              *)
(*                                                                         *)
(* Strings are sequences of one-character strings so that String.trim() is *)
(* computed, not assumed.  A JavaScript Map is a sequence of [key, value]  *)
(* entries in insertion order; a Set<string> is a duplicate-free sequence  *)
(* in insertion order.  bigint values are unbounded integers.              *)
(***************************************************************************)
EXTENDS Integers, Sequences, FiniteSets, TLC

VARIABLES
  inputMember,        \* store: State.inputMember
  inputExpense,       \* store: State.inputExpense
  members,            \* store: State.members, a Set<string>
  expenses,           \* store: State.expenses
  pc,                 \* where useResultLogic is: "idle", "plan", "loop", "done"
  totalPaidByMember,  \* useResultLogic: totalPaidByMember
  total,              \* useResultLogic: total
  totalPerMember,     \* useResultLogic: totalPerMember
  differences,        \* useResultLogic: differences, updated in place by the loop
  overpaidMembers,    \* calculateWarikanPlan: overpaidMembers
  underpaidMembers,   \* calculateWarikanPlan: underpaidMembers
  warikanPlan,        \* calculateWarikanPlan: warikanPlan
  result              \* what useResultLogic returned, if it has

storeVars == <<inputMember, inputExpense, members, expenses>>
calcVars == <<totalPaidByMember, total, totalPerMember, differences,
              overpaidMembers, underpaidMembers, warikanPlan, result>>
vars == <<inputMember, inputExpense, members, expenses,
          pc, totalPaidByMember, total, totalPerMember, differences,
          overpaidMembers, underpaidMembers, warikanPlan, result>>

---------------------------------------------------------------------------
(* Bounds of the model.                                                    *)

\* longest expense list (addExpense is not taken beyond it)
MaxExpenses == 2
\* largest amount drawn for the hook's inputs
MaxAmount == 3
\* largest amount typed into the expense form of the store
MaxInputAmount == 1

---------------------------------------------------------------------------
(* Strings.                                                                *)

SP == " "
EmptyString == <<>>

RECURSIVE trimStart(_)
trimStart(s) ==
  IF s # <<>> /\ Head(s) = SP THEN trimStart(Tail(s)) ELSE s

RECURSIVE trimEnd(_)
trimEnd(s) ==
  IF s # <<>> /\ s[Len(s)] = SP THEN trimEnd(SubSeq(s, 1, Len(s) - 1)) ELSE s

\* String.prototype.trim
trim(s) == trimEnd(trimStart(s))

Range(s) == {s[i] : i \in 1..Len(s)}

SeqsUpTo(S, n) == UNION {[1..k -> S] : k \in 0..n}

---------------------------------------------------------------------------
(* Map<string, bigint> as a sequence of entries in insertion order.        *)

MapHas(m, k) == \E i \in 1..Len(m) : m[i].key = k

\* Map.get(k)! : the value of a key that is present
MapGet(m, k) == m[CHOOSE i \in 1..Len(m) : m[i].key = k].value

\* Map.get(k) || 0n : undefined and 0n both give 0n
MapGetOr0(m, k) == IF MapHas(m, k) THEN MapGet(m, k) ELSE 0

\* Map.set(k, v) : overwrite in place, or append a new entry
MapSet(m, k, v) ==
  IF MapHas(m, k)
  THEN [i \in 1..Len(m) |-> IF m[i].key = k THEN [key |-> k, value |-> v] ELSE m[i]]
  ELSE Append(m, [key |-> k, value |-> v])

RECURSIVE SumValues(_)
SumValues(m) == IF m = <<>> THEN 0 ELSE Head(m).value + SumValues(Tail(m))

---------------------------------------------------------------------------
(* bigint division and remainder: both truncate toward zero.               *)

BigIntDiv(a, b) == IF a >= 0 THEN a \div b ELSE 0 - ((0 - a) \div b)

BigIntRem(a, b) == a - b * BigIntDiv(a, b)

---------------------------------------------------------------------------
(* The pure stages of useResultLogic.                                      *)

RECURSIVE PaidFold(_, _)
PaidFold(exps, acc) ==
  IF exps = <<>> THEN acc
  ELSE LET expense == Head(exps)
           currentTotal == MapGetOr0(acc, expense.paidBy)
       IN PaidFold(Tail(exps), MapSet(acc, expense.paidBy, currentTotal + expense.amount))

calculateTotalPaidByMember(exps) == PaidFold(exps, <<>>)

calculateTotal(paid) == SumValues(paid)

\* ExtraAmount with <= for <: one member too many gets the extra unit
ExtraAmountOffByOne(index, remainder) == IF index <= remainder THEN 1 ELSE 0

ExtraAmount(index, remainder) == IF index < remainder THEN 1 ELSE 0

calculateTotalPerMember(tot, mems) ==
  LET memberCount == Len(mems)
      baseAmount == BigIntDiv(tot, memberCount)
      remainder == BigIntRem(tot, memberCount)
  IN [i \in 1..Len(mems) |->
        [key |-> mems[i], value |-> baseAmount + ExtraAmount(i - 1, remainder)]]

calculateDifferences(mems, paid, perMember) ==
  [i \in 1..Len(mems) |->
     [key |-> mems[i],
      value |-> MapGetOr0(paid, mems[i]) - MapGetOr0(perMember, mems[i])]]

---------------------------------------------------------------------------
(* calculateWarikanPlan: the two sorted lists and one pass of the loop.    *)

\* IsOverpaid with >= for >: settled members enter the creditor list
IsOverpaidOrEven(amount) == amount >= 0

IsOverpaid(amount) == amount > 0

IsUnderpaid(amount) == amount < 0

CompareDescending(a, b) == b.value - a.value

CompareAscending(a, b) == a.value - b.value

\* Array.prototype.sort is stable: a goes before b when the comparator gives
\* a negative number for (a, b), and entries that compare equal keep their
\* order.  descending selects the comparator of the creditor list.
StableSort(s, descending) ==
  LET cmp(a, b) == IF descending THEN CompareDescending(a, b) ELSE CompareAscending(a, b)
      pos(i) == Cardinality({j \in 1..Len(s) :
                   \/ cmp(s[j], s[i]) < 0
                   \/ cmp(s[j], s[i]) = 0 /\ j < i}) + 1
  IN [k \in 1..Len(s) |-> s[CHOOSE i \in 1..Len(s) : pos(i) = k]]

Keys(entries) == [i \in 1..Len(entries) |-> entries[i].key]

OverpaidMembers(diffs) ==
  Keys(StableSort(SelectSeq(diffs, LAMBDA e : IsOverpaid(e.value)), TRUE))

UnderpaidMembers(diffs) ==
  Keys(StableSort(SelectSeq(diffs, LAMBDA e : IsUnderpaid(e.value)), FALSE))

\* SettleAmount taking the larger of the two
SettleAmountMax(receiverDifference, payerDifference) ==
  IF receiverDifference < payerDifference THEN payerDifference ELSE receiverDifference

SettleAmount(receiverDifference, payerDifference) ==
  IF receiverDifference < payerDifference THEN receiverDifference ELSE payerDifference

\* Transaction with from and to exchanged
TransactionSwapped(payer, receiver, amount) ==
  [from |-> receiver, to |-> payer, amount |-> amount]

Transaction(payer, receiver, amount) ==
  [from |-> payer, to |-> receiver, amount |-> amount]

\* differences.set(receiver, differences.get(receiver)! - amount)
Credit(diffs, receiver, amount) ==
  MapSet(diffs, receiver, MapGet(diffs, receiver) - amount)

\* Debit subtracting the amount
DebitWrongSign(diffs, payer, amount) ==
  MapSet(diffs, payer, MapGet(diffs, payer) - amount)

\* differences.set(payer, differences.get(payer)! + amount)
Debit(diffs, payer, amount) ==
  MapSet(diffs, payer, MapGet(diffs, payer) + amount)

ShiftIfSettled(list, difference) == IF difference = 0 THEN Tail(list) ELSE list

---------------------------------------------------------------------------
(* The store.                                                              *)

BlankExpense == [paidBy |-> EmptyString, description |-> EmptyString, amount |-> 0]

NameA == <<"A">>
NameB == <<"B">>
NameC == <<"C">>
Names == {NameA, NameB, NameC}

\* what is typed into the member field
MemberInputs == {<<SP>>, NameA, <<SP, "B", SP>>}

\* what the expense form hands to updateInputExpense
ExpenseInputs ==
  [paidBy : {EmptyString, NameA, NameB},
   description : {<<SP>>, <<"x", SP>>},
   amount : (0 - 1)..MaxInputAmount]

NoResult == [kind |-> "none", plan |-> <<>>]

CalcInit ==
  /\ pc = "idle"
  /\ totalPaidByMember = <<>>
  /\ total = 0
  /\ totalPerMember = <<>>
  /\ differences = <<>>
  /\ overpaidMembers = <<>>
  /\ underpaidMembers = <<>>
  /\ warikanPlan = <<>>
  /\ result = NoResult

Init ==
  /\ inputMember = EmptyString
  /\ inputExpense = BlankExpense
  /\ members = <<>>
  /\ expenses = <<>>
  /\ CalcInit

updateInputMember(input) ==
  /\ pc = "idle"
  /\ inputMember' = input
  /\ UNCHANGED <<inputExpense, members, expenses, pc, calcVars>>

updateInputExpense(input) ==
  /\ pc = "idle"
  /\ inputExpense' = input
  /\ UNCHANGED <<inputMember, members, expenses, pc, calcVars>>

addMember ==
  /\ pc = "idle"
  /\ LET trimmedMember == trim(inputMember)
         isDuplicateMember == trimmedMember \in Range(members)
     IN IF trimmedMember # EmptyString /\ ~isDuplicateMember
        THEN /\ members' = Append(members, trimmedMember)
             /\ inputMember' = EmptyString
        ELSE UNCHANGED <<members, inputMember>>
  /\ UNCHANGED <<inputExpense, expenses, pc, calcVars>>

addExpense ==
  /\ pc = "idle"
  /\ Len(expenses) < MaxExpenses
  /\ LET paidBy == inputExpense.paidBy
         amount == inputExpense.amount
         trimmedDescription == trim(inputExpense.description)
     IN IF paidBy # EmptyString /\ trimmedDescription # EmptyString /\ amount # 0
        THEN /\ expenses' = Append(expenses,
                               [inputExpense EXCEPT !.description = trimmedDescription])
             /\ inputExpense' = BlankExpense
        ELSE UNCHANGED <<expenses, inputExpense>>
  /\ UNCHANGED <<inputMember, members, pc, calcVars>>

removeExpense(index) ==
  /\ pc = "idle"
  /\ expenses' = [k \in 1..(Len(expenses) - (IF index < Len(expenses) THEN 1 ELSE 0)) |->
                    IF k - 1 < index THEN expenses[k] ELSE expenses[k + 1]]
  /\ UNCHANGED <<inputMember, inputExpense, members, pc, calcVars>>

---------------------------------------------------------------------------
(* The hook.                                                               *)

\* useResultLogic up to the call of calculateWarikanPlan
useResultLogic ==
  /\ pc = "idle"
  /\ IF Len(members) = 0 \/ Len(expenses) = 0
     THEN /\ result' = [kind |-> "ok", plan |-> <<>>]
          /\ pc' = "done"
          /\ UNCHANGED <<totalPaidByMember, total, totalPerMember, differences>>
     ELSE /\ totalPaidByMember' = calculateTotalPaidByMember(expenses)
          /\ total' = calculateTotal(totalPaidByMember')
          /\ totalPerMember' = calculateTotalPerMember(total', members)
          /\ differences' = calculateDifferences(members, totalPaidByMember', totalPerMember')
          /\ pc' = "plan"
          /\ UNCHANGED result
  /\ UNCHANGED <<storeVars, overpaidMembers, underpaidMembers, warikanPlan>>

\* calculateWarikanPlan up to the loop
calculateWarikanPlan ==
  /\ pc = "plan"
  /\ warikanPlan' = <<>>
  /\ overpaidMembers' = OverpaidMembers(differences)
  /\ underpaidMembers' = UnderpaidMembers(differences)
  /\ pc' = "loop"
  /\ UNCHANGED <<storeVars, totalPaidByMember, total, totalPerMember, differences, result>>

\* one pass of the while loop
WarikanLoop ==
  /\ pc = "loop"
  /\ Len(overpaidMembers) > 0 /\ Len(underpaidMembers) > 0
  /\ LET receiver == Head(overpaidMembers)
         payer == Head(underpaidMembers)
         receiverDifference == MapGet(differences, receiver)
         payerDifference == 0 - MapGet(differences, payer)
         amount == SettleAmount(receiverDifference, payerDifference)
         d1 == Credit(differences, receiver, amount)
         d2 == Debit(d1, payer, amount)
     IN /\ warikanPlan' = Append(warikanPlan, Transaction(payer, receiver, amount))
        /\ differences' = d2
        /\ overpaidMembers' = ShiftIfSettled(overpaidMembers, MapGet(d2, receiver))
        /\ underpaidMembers' = ShiftIfSettled(underpaidMembers, MapGet(d2, payer))
  /\ UNCHANGED <<storeVars, pc, totalPaidByMember, total, totalPerMember, result>>

\* the loop condition fails: calculateWarikanPlan and the hook return
WarikanReturn ==
  /\ pc = "loop"
  /\ ~(Len(overpaidMembers) > 0 /\ Len(underpaidMembers) > 0)
  /\ result' = [kind |-> "ok", plan |-> warikanPlan]
  /\ pc' = "done"
  /\ UNCHANGED <<storeVars, totalPaidByMember, total, totalPerMember, differences,
                 overpaidMembers, underpaidMembers, warikanPlan>>

\* the render is over; the hook's locals are gone
RenderDone ==
  /\ pc = "done"
  /\ pc' = "idle"
  /\ totalPaidByMember' = <<>>
  /\ total' = 0
  /\ totalPerMember' = <<>>
  /\ differences' = <<>>
  /\ overpaidMembers' = <<>>
  /\ underpaidMembers' = <<>>
  /\ warikanPlan' = <<>>
  /\ result' = NoResult
  /\ UNCHANGED storeVars

NextStore ==
  \/ \E input \in MemberInputs : updateInputMember(input)
  \/ \E input \in ExpenseInputs : updateInputExpense(input)
  \/ addMember
  \/ addExpense
  \/ \E index \in 0..MaxExpenses : removeExpense(index)

NextCalc ==
  \/ useResultLogic
  \/ calculateWarikanPlan
  \/ WarikanLoop
  \/ WarikanReturn

Next == NextStore \/ NextCalc \/ RenderDone

Spec == Init /\ [][Next]_vars

---------------------------------------------------------------------------
(* The hook alone, over every store content within the bounds.             *)

Amounts == ((0 - 1)..MaxAmount) \ {0}

ExpenseRecords == [paidBy : Names, description : {<<"x">>}, amount : Amounts]

\* every Set<string> over Names, in every insertion order
MemberSets ==
  {s \in SeqsUpTo(Names, Cardinality(Names)) : \A i, j \in 1..Len(s) : i # j => s[i] # s[j]}

InitCalc ==
  /\ inputMember = EmptyString
  /\ inputExpense = BlankExpense
  /\ members \in MemberSets
  /\ expenses \in SeqsUpTo(ExpenseRecords, MaxExpenses)
  /\ CalcInit

SpecCalc == InitCalc /\ [][NextCalc]_vars

---------------------------------------------------------------------------
(* What the properties below speak about.                                  *)

AllPayersAreMembers == \A i \in 1..Len(expenses) : expenses[i].paidBy \in Range(members)

NoNegativeAmount == \A i \in 1..Len(expenses) : expenses[i].amount >= 0

ValidInput == AllPayersAreMembers /\ NoNegativeAmount

RECURSIVE PaidBy(_, _)
\* the sum of the amounts of the expenses that name m as payer
PaidBy(m, exps) ==
  IF exps = <<>> THEN 0
  ELSE (IF Head(exps).paidBy = m THEN Head(exps).amount ELSE 0) + PaidBy(m, Tail(exps))

\* the balances the matcher starts from, for the store's members and expenses
InitialDifferences ==
  LET paid == calculateTotalPaidByMember(expenses)
  IN calculateDifferences(members, paid,
                          calculateTotalPerMember(calculateTotal(paid), members))

InitialBalance(m) == MapGetOr0(InitialDifferences, m)

Creditors == {m \in Range(members) : InitialBalance(m) > 0}

Debtors == {m \in Range(members) : InitialBalance(m) < 0}

RECURSIVE PaidOut(_, _)
\* what m pays over the transactions of plan
PaidOut(m, plan) ==
  IF plan = <<>> THEN 0
  ELSE (IF Head(plan).from = m THEN Head(plan).amount ELSE 0) + PaidOut(m, Tail(plan))

RECURSIVE Received(_, _)
\* what m receives over the transactions of plan
Received(m, plan) ==
  IF plan = <<>> THEN 0
  ELSE (IF Head(plan).to = m THEN Head(plan).amount ELSE 0) + Received(m, Tail(plan))

Abs(x) == IF x < 0 THEN 0 - x ELSE x

---------------------------------------------------------------------------
(* Properties.                                                             *)

\* C1: for a non-empty member set and expenses whose payers are all members
\* and whose amounts are non-negative, each balance calculateDifferences
\* returns is the member's paid total minus the member's fair share, and the
\* balances sum to exactly zero.
C1_BalancesSumToZero ==
  /\ (Len(members) > 0 /\ ValidInput) => SumValues(InitialDifferences) = 0
  /\ (pc = "plan" /\ Len(members) > 0 /\ ValidInput) =>
     /\ SumValues(differences) = 0
     /\ Len(differences) = Len(members)
     /\ \A i \in 1..Len(members) :
          /\ differences[i].key = members[i]
          /\ differences[i].value =
               PaidBy(members[i], expenses) - MapGet(totalPerMember, members[i])

C1_Witness ==
  /\ pc = "plan" /\ ValidInput
  /\ Len(members) = 3
  /\ total % 3 # 0
  /\ \E i \in 1..Len(members) : PaidBy(members[i], expenses) = 0
  /\ \E i \in 1..Len(differences) : differences[i].value > 0

\* C2: for valid input, when calculateWarikanPlan has returned both lists are
\* empty, and adding every transaction's amount to the balance of its `from`
\* and subtracting it from the balance of its `to` leaves every member at zero.
C2_SettlementCorrect ==
  (pc = "done" /\ ValidInput) =>
     /\ overpaidMembers = <<>>
     /\ underpaidMembers = <<>>
     /\ \A m \in Range(members) :
          InitialBalance(m) + PaidOut(m, result.plan) - Received(m, result.plan) = 0

C2_Witness ==
  /\ pc = "done" /\ ValidInput
  /\ Len(result.plan) >= 2
  /\ overpaidMembers = <<>> /\ underpaidMembers = <<>>

\* C3: at every call of calculateTotalPerMember the fair shares sum to the
\* grand total, any two shares differ by at most 1, and the extra unit goes
\* to the first (total mod memberCount) members in insertion order.
C3_FairShares ==
  pc = "plan" =>
     LET n == Len(members)
     IN /\ SumValues(totalPerMember) = total
        /\ \A i, j \in 1..n :
             Abs(totalPerMember[i].value - totalPerMember[j].value) <= 1
        /\ \A i \in 1..n :
             /\ totalPerMember[i].key = members[i]
             /\ totalPerMember[i].value =
                  (total \div n) + (IF i <= total % n THEN 1 ELSE 0)

\* C3 for the grand totals of expense lists without a negative amount
C3_FairSharesOfNonNegativeTotal == NoNegativeAmount => C3_FairShares

\* C4: every emitted transaction has amount > 0, and whenever the loop is
\* about to run a pass the front creditor's balance is > 0 and the front
\* debtor's balance is < 0.
C4_PositiveAmounts ==
  /\ \A i \in 1..Len(warikanPlan) : warikanPlan[i].amount > 0
  /\ (pc = "loop" /\ Len(overpaidMembers) > 0 /\ Len(underpaidMembers) > 0) =>
        /\ MapGet(differences, Head(overpaidMembers)) > 0
        /\ MapGet(differences, Head(underpaidMembers)) < 0

C4_Witness ==
  /\ pc = "loop"
  /\ Len(warikanPlan) >= 1
  /\ Len(overpaidMembers) > 0 /\ Len(underpaidMembers) > 0
  /\ \E m \in Range(members) :
       /\ MapGet(differences, m) # InitialBalance(m)
       /\ MapGet(differences, m) # 0

\* C5: in every emitted transaction `from` has a negative initial balance and
\* `to` a positive one; so from # to, and a member whose initial balance is
\* zero is in no transaction.
C5_DebtorPaysCreditor ==
  \A i \in 1..Len(warikanPlan) :
     LET t == warikanPlan[i]
     IN /\ t.from \in Debtors
        /\ t.to \in Creditors
        /\ t.from # t.to
        /\ \A m \in Range(members) :
             InitialBalance(m) = 0 => (m # t.from /\ m # t.to)

C5_Witness ==
  /\ pc = "done"
  /\ Len(members) = 3
  /\ Len(result.plan) >= 1
  /\ \E m \in Range(members) : InitialBalance(m) = 0

\* C6: with no member and at least one expense the computation ends in an
\* error result, not in a transaction list.
C6_EmptyMemberSetFails ==
  (pc = "done" /\ Len(members) = 0 /\ Len(expenses) > 0) => result.kind = "error"

\* C7: with an expense whose payer is no member the computation is rejected:
\* it does not go on to totals and balances, and it ends in an error result.
C7_InvalidMemberRejected ==
  ~AllPayersAreMembers =>
     /\ pc \notin {"plan", "loop"}
     /\ pc = "done" => result.kind = "error"

\* C8: no recorded expense has an amount below zero, and a computation over
\* an expense list with a negative amount ends in an error result.
C8_NegativeAmountRejected ==
  /\ NoNegativeAmount
  /\ (pc = "done" /\ ~NoNegativeAmount) => result.kind = "error"

\* C9: in every reachable store state every recorded expense's paidBy is an
\* element of members.
C9_PayersAreMembers == AllPayersAreMembers

\* C10: every pass of the loop removes at least one member from the creditor
\* list or the debtor list (so the loop ends), and when the balances sum to
\* zero and a transaction was emitted the number of transactions is at most
\* creditors + debtors - 1.
C10_LoopTerminates ==
  /\ [][Len(warikanPlan') = Len(warikanPlan) + 1 =>
          Len(overpaidMembers') + Len(underpaidMembers')
             < Len(overpaidMembers) + Len(underpaidMembers)]_vars
  /\ [](pc \in {"loop", "done"} /\ Len(members) > 0 /\ Len(expenses) > 0 =>
          Len(warikanPlan) + Len(overpaidMembers) + Len(underpaidMembers)
             <= Cardinality(Creditors) + Cardinality(Debtors))
  /\ []((pc = "done" /\ SumValues(InitialDifferences) = 0 /\ Len(result.plan) >= 1) =>
          Len(result.plan) <= Cardinality(Creditors) + Cardinality(Debtors) - 1)

C10_Witness ==
  /\ pc = "done"
  /\ SumValues(InitialDifferences) = 0
  /\ Len(result.plan) = 2
  /\ Cardinality(Creditors) + Cardinality(Debtors) = 3

====
